---- MODULE Spec2Model ----
(***************************************************************************)
(* zoolanding-data-dropper-lambda: the request pipeline of                  *)
(* src/lambda_function.py (decode -> parse -> validate -> normalise ->      *)
(* derive key -> upload or simulate -> respond) as a state machine over the *)
(* process globals (S3, DRY_RUN, boto3) and the observable effects of the   *)
(* latest invocation (store calls, log lines, response).                    *)
(*                                                                          *)
(* Text is a sequence of Unicode code points, bytes are sequences of        *)
(* 0..255, and numbers are sign + decimal digit sequences, so that no value *)
(* of the program (10^12, millisecond timestamps) is cut to the 32-bit     *)
(* integers of TLC.                                                         *)
(***************************************************************************)
EXTENDS Integers, Sequences, FiniteSets, TLC

----------------------------------------------------------------------------
(* Text: code points.  Str turns an ASCII literal into text. *)

\* the printable ASCII characters 32..95 and 97..126 (a string literal cannot
\* hold the grave accent, 96)
AsciiLow ==
    " !\"#$%&'()*+,-./0123456789:;<=>?@ABCDEFGHIJKLMNOPQRSTUVWXYZ[\\]^_"

AsciiHigh ==
    "abcdefghijklmnopqrstuvwxyz{|}~"

\* ord() of each of them
Ord ==
    [c \in {SubSeq(AsciiLow, i, i) : i \in 1..Len(AsciiLow)}
            \cup {SubSeq(AsciiHigh, i, i) : i \in 1..Len(AsciiHigh)} |->
        IF \E i \in 1..Len(AsciiLow) : SubSeq(AsciiLow, i, i) = c
        THEN 31 + (CHOOSE i \in 1..Len(AsciiLow) : SubSeq(AsciiLow, i, i) = c)
        ELSE 96 + (CHOOSE i \in 1..Len(AsciiHigh) : SubSeq(AsciiHigh, i, i) = c)]

Str(s) ==
    [i \in 1..Len(s) |-> Ord[SubSeq(s, i, i)]]

\* s[-n:]
LastN(s, n) ==
    IF Len(s) <= n THEN s ELSE SubSeq(s, Len(s) - n + 1, Len(s))

\* str.strip() removes the characters for which str.isspace() holds
IsSpace(c) ==
    c \in {9, 10, 11, 12, 13, 28, 29, 30, 31, 32, 133, 160, 5760, 8232, 8233, 8239, 8287, 12288}
        \cup (8192..8202)

StripIsEmpty(s) ==
    \A i \in 1..Len(s) : IsSpace(s[i])

----------------------------------------------------------------------------
(* Unbounded naturals as big-endian decimal digit sequences without        *)
(* leading zeros (zero is <<0>>).                                           *)

Norm(ds) ==
    IF \A i \in 1..Len(ds) : ds[i] = 0 THEN <<0>>
    ELSE SubSeq(ds, CHOOSE i \in 1..Len(ds) : ds[i] # 0 /\ \A j \in 1..(i - 1) : ds[j] = 0,
                Len(ds))

IsZero(ds) ==
    \A i \in 1..Len(ds) : ds[i] = 0

\* -1, 0, 1 as a < b, a = b, a > b, for normalised a and b
CmpMag(a, b) ==
    IF Len(a) # Len(b) THEN (IF Len(a) < Len(b) THEN -1 ELSE 1)
    ELSE IF a = b THEN 0
    ELSE LET i == CHOOSE j \in 1..Len(a) :
                    a[j] # b[j] /\ \A k \in 1..(j - 1) : a[k] = b[k]
         IN  IF a[i] < b[i] THEN -1 ELSE 1

Zeros(n) ==
    [i \in 1..n |-> 0]

Pow10(n) ==
    <<1>> \o Zeros(n)

\* the digits of a small natural
RECURSIVE NatDigits(_)
NatDigits(n) ==
    IF n < 10 THEN <<n>> ELSE NatDigits(n \div 10) \o <<n % 10>>

\* the small natural a digit sequence denotes (callers keep it below 2^31)
RECURSIVE DigitsNat(_)
DigitsNat(ds) ==
    IF ds = <<>> THEN 0 ELSE DigitsNat(SubSeq(ds, 1, Len(ds) - 1)) * 10 + ds[Len(ds)]

\* long division of the digits ds[i..j] by a small divisor d, carrying the
\* remainder in: quotient digits and remainder (the range is halved, so
\* that the evaluation nests only as deep as the logarithm of the length)
RECURSIVE LongDiv(_, _, _, _, _)
LongDiv(ds, d, i, j, r) ==
    IF i > j THEN [q |-> <<>>, r |-> r]
    ELSE IF i = j THEN [q |-> <<(r * 10 + ds[i]) \div d>>, r |-> (r * 10 + ds[i]) % d]
    ELSE LET m  == (i + j) \div 2
             lo == LongDiv(ds, d, i, m, r)
             hi == LongDiv(ds, d, m + 1, j, lo.r)
         IN  [q |-> lo.q \o hi.q, r |-> hi.r]

DivMod(ds, d) ==
    LET qr == LongDiv(ds, d, 1, Len(ds), 0)
    IN  [q |-> Norm(qr.q), r |-> qr.r]

\* a + 1 on digits
Incr(ds) ==
    IF \A i \in 1..Len(ds) : ds[i] = 9 THEN <<1>> \o Zeros(Len(ds))
    ELSE LET k == CHOOSE i \in 1..Len(ds) : ds[i] # 9 /\ \A j \in (i + 1)..Len(ds) : ds[j] = 9
         IN  [i \in 1..Len(ds) |-> IF i < k THEN ds[i] ELSE IF i = k THEN ds[i] + 1 ELSE 0]

DigitsText(ds) ==
    [i \in 1..Len(ds) |-> 48 + ds[i]]

HexDigit(n) ==
    IF n < 10 THEN 48 + n ELSE 87 + n

\* the lower-case hexadecimal digits of a digit sequence
RECURSIVE HexDigits(_)
HexDigits(ds) ==
    LET qr == DivMod(ds, 16)
    IN  IF IsZero(qr.q) THEN <<HexDigit(qr.r)>>
        ELSE HexDigits(qr.q) \o <<HexDigit(qr.r)>>

----------------------------------------------------------------------------
(* Python values.  A bool is an int (isinstance(True, int) holds); a float *)
(* is nan, +/-inf, or a finite value written exactly as sign, integer       *)
(* digits and fraction digits.  The finite floats the model feeds in are    *)
(* values a double holds exactly and whose product by 1000 a double holds   *)
(* exactly, so the exact decimal arithmetic below is the double arithmetic. *)

PyNone == [t |-> "None"]
PyBool(b) == [t |-> "bool", b |-> b]
PyInt(neg, mag) == [t |-> "int", neg |-> neg /\ ~IsZero(mag), mag |-> Norm(mag)]
PyFloat(neg, mag, frac) == [t |-> "float", k |-> "fin", neg |-> neg, mag |-> Norm(mag), frac |-> frac]
PyNan == [t |-> "float", k |-> "nan", neg |-> FALSE, mag |-> <<0>>, frac |-> <<>>]
PyInf(neg) == [t |-> "float", k |-> "inf", neg |-> neg, mag |-> <<0>>, frac |-> <<>>]
PyStr(s) == [t |-> "str", s |-> s]
PyBytes(bs) == [t |-> "bytes", bs |-> bs]
PyList(items) == [t |-> "list", items |-> items]
PyDict(keys, vals) == [t |-> "dict", keys |-> keys, vals |-> vals]

\* the outcome of a call: a value, or an exception class with str(exception)
Ok(v) == [exc |-> "none", msg |-> <<>>, v |-> v]
Raise(exc, msg) == [exc |-> exc, msg |-> msg, v |-> PyNone]

\* 2^1024 - 2^970: the least magnitude that does not round to a finite double
DblOverflow ==
    <<
       1, 7, 9, 7, 6, 9, 3, 1, 3, 4, 8, 6, 2, 3, 1, 5, 8, 0, 7, 9, 3, 7, 2, 8,
       9, 7, 1, 4, 0, 5, 3, 0, 3, 4, 1, 5, 0, 7, 9, 9, 3, 4, 1, 3, 2, 7, 1, 0,
       0, 3, 7, 8, 2, 6, 9, 3, 6, 1, 7, 3, 7, 7, 8, 9, 8, 0, 4, 4, 4, 9, 6, 8,
       2, 9, 2, 7, 6, 4, 7, 5, 0, 9, 4, 6, 6, 4, 9, 0, 1, 7, 9, 7, 7, 5, 8, 7,
       2, 0, 7, 0, 9, 6, 3, 3, 0, 2, 8, 6, 4, 1, 6, 6, 9, 2, 8, 8, 7, 9, 1, 0,
       9, 4, 6, 5, 5, 5, 5, 4, 7, 8, 5, 1, 9, 4, 0, 4, 0, 2, 6, 3, 0, 6, 5, 7,
       4, 8, 8, 6, 7, 1, 5, 0, 5, 8, 2, 0, 6, 8, 1, 9, 0, 8, 9, 0, 2, 0, 0, 0,
       7, 0, 8, 3, 8, 3, 6, 7, 6, 2, 7, 3, 8, 5, 4, 8, 4, 5, 8, 1, 7, 7, 1, 1,
       5, 3, 1, 7, 6, 4, 4, 7, 5, 7, 3, 0, 2, 7, 0, 0, 6, 9, 8, 5, 5, 5, 7, 1,
       3, 6, 6, 9, 5, 9, 6, 2, 2, 8, 4, 2, 9, 1, 4, 8, 1, 9, 8, 6, 0, 8, 3, 4,
       9, 3, 6, 4, 7, 5, 2, 9, 2, 7, 1, 9, 0, 7, 4, 1, 6, 8, 4, 4, 4, 3, 6, 5,
       5, 1, 0, 7, 0, 4, 3, 4, 2, 7, 1, 1, 5, 5, 9, 6, 9, 9, 5, 0, 8, 0, 9, 3,
       0, 4, 2, 8, 8, 0, 1, 7, 7, 9, 0, 4, 1, 7, 4, 4, 9, 7, 7, 9, 2
    >>

TooLargeForFloat(mag) ==
    CmpMag(mag, DblOverflow) >= 0

\* a bool read as the int it is
AsInt(x) ==
    IF x.t = "bool" THEN PyInt(FALSE, IF x.b THEN <<1>> ELSE <<0>>) ELSE x

StripTrailingZeros(ds) ==
    IF \A i \in 1..Len(ds) : ds[i] = 0 THEN <<>>
    ELSE SubSeq(ds, 1, CHOOSE i \in 1..Len(ds) :
                           ds[i] # 0 /\ \A j \in (i + 1)..Len(ds) : ds[j] = 0)

\* x >= 10**12 for an int or a float x that is not nan (Python compares an
\* int and a float by value)
GeTenPow12(x) ==
    IF x.t = "float" /\ x.k = "inf" THEN ~x.neg
    ELSE IF x.neg THEN FALSE
    ELSE CmpMag(x.mag, Pow10(12)) >= 0

\* x * 1000: an int stays an int; a float product is rounded to a double,
\* which is +/-inf from DblOverflow on
Times1000(x) ==
    IF x.t = "int" THEN PyInt(x.neg, x.mag \o Zeros(3))
    ELSE IF x.k # "fin" THEN x
    ELSE LET f3  == SubSeq(x.frac \o Zeros(3), 1, 3)
             mag == Norm(x.mag \o f3)
         IN  IF TooLargeForFloat(mag) THEN PyInf(x.neg)
             ELSE PyFloat(x.neg, mag, SubSeq(x.frac, 4, Len(x.frac)))

\* int(x): a float is truncated toward zero; int(inf) and int(nan) raise
IntOf(x) ==
    IF x.t = "int" THEN Ok(x)
    ELSE IF x.k = "inf"
    THEN Raise("OverflowError", Str("cannot convert float infinity to integer"))
    ELSE IF x.k = "nan"
    THEN Raise("ValueError", Str("cannot convert float NaN to integer"))
    ELSE Ok(PyInt(x.neg, x.mag))

\* math.isfinite(x): an int is converted to a float first
IsFinite(x) ==
    IF x.t = "int"
    THEN IF TooLargeForFloat(x.mag)
         THEN Raise("OverflowError", Str("int too large to convert to float"))
         ELSE Ok(PyBool(TRUE))
    ELSE Ok(PyBool(x.k = "fin"))

\* str(n) of an int
IntText(n) ==
    (IF n.neg THEN Str("-") ELSE <<>>) \o DigitsText(n.mag)

\* _normalize_timestamp_to_ms
_normalize_timestamp_to_ms(ts) ==
    IF ts.t \notin {"int", "float", "bool"}
    THEN Raise("ValueError", Str("Missing or invalid timestamp"))
    ELSE LET n   == AsInt(ts)
             fin == IsFinite(n)
         IN  IF fin.exc # "none" THEN fin
             ELSE IF ~fin.v.b THEN Raise("ValueError", Str("Missing or invalid timestamp"))
             ELSE IntOf(IF GeTenPow12(n) THEN n ELSE Times1000(n))

----------------------------------------------------------------------------
(* Signed arithmetic on [neg, mag] for the calendar. *)

RECURSIVE AddDigits(_, _, _)
AddDigits(a, b, carry) ==
    IF a = <<>> /\ b = <<>> THEN (IF carry = 0 THEN <<>> ELSE <<carry>>)
    ELSE LET x == IF a = <<>> THEN 0 ELSE a[Len(a)]
             y == IF b = <<>> THEN 0 ELSE b[Len(b)]
             s == x + y + carry
             ra == IF a = <<>> THEN <<>> ELSE SubSeq(a, 1, Len(a) - 1)
             rb == IF b = <<>> THEN <<>> ELSE SubSeq(b, 1, Len(b) - 1)
         IN  AddDigits(ra, rb, s \div 10) \o <<s % 10>>

\* a - b for a >= b
RECURSIVE SubDigits(_, _, _)
SubDigits(a, b, borrow) ==
    IF a = <<>> THEN <<>>
    ELSE LET x == a[Len(a)]
             y == (IF b = <<>> THEN 0 ELSE b[Len(b)]) + borrow
             rb == IF b = <<>> THEN <<>> ELSE SubSeq(b, 1, Len(b) - 1)
         IN  SubDigits(SubSeq(a, 1, Len(a) - 1), rb, IF x < y THEN 1 ELSE 0)
                 \o <<IF x < y THEN x + 10 - y ELSE x - y>>

Signed(neg, mag) ==
    [neg |-> neg /\ ~IsZero(mag), mag |-> Norm(mag)]

\* n + k for a small natural k
SAddSmall(n, k) ==
    IF ~n.neg THEN Signed(FALSE, AddDigits(n.mag, NatDigits(k), 0))
    ELSE IF CmpMag(n.mag, NatDigits(k)) > 0 THEN Signed(TRUE, SubDigits(n.mag, NatDigits(k), 0))
    ELSE Signed(FALSE, NatDigits(k - DigitsNat(n.mag)))

\* floor(n / d) and n - d * floor(n / d), for a small positive d
FloorOf(neg, qr, d) ==
    IF ~neg THEN [q |-> Signed(FALSE, qr.q), r |-> qr.r]
    ELSE IF qr.r = 0 THEN [q |-> Signed(TRUE, qr.q), r |-> 0]
    ELSE [q |-> Signed(TRUE, Incr(qr.q)), r |-> d - qr.r]

SFloorDiv(n, d) ==
    FloorOf(n.neg, DivMod(n.mag, d), d)

\* floor(n / 1000), read off the digits
SFloorDiv1000(n) ==
    IF n.neg /\ DigitsNat(LastN(n.mag, 3)) # 0
    THEN Signed(TRUE, Incr(Norm(SubSeq(n.mag, 1, Len(n.mag) - 3))))
    ELSE Signed(n.neg, Norm(SubSeq(n.mag, 1, Len(n.mag) - 3)))

SmallInt(n) ==
    IF n.neg THEN 0 - DigitsNat(n.mag) ELSE DigitsNat(n.mag)

----------------------------------------------------------------------------
(* datetime.fromtimestamp(ts_ms / 1000.0, tz=timezone.utc) and strftime.   *)
(* The division and the rounding to microseconds are exact here: an        *)
(* integer count of milliseconds below 2^53 keeps its second and its day.  *)

\* 2^63, the first second a 64-bit time_t does not hold
TimeTLimit == <<9,2,2,3,3,7,2,0,3,6,8,5,4,7,7,5,8,0,8>>

\* the last and the first second whose year gmtime() holds in an int
GmtimeMax == <<6,7,7,6,8,0,3,6,1,9,1,6,7,6,7,9,9>>
GmtimeMin == <<6,7,7,6,8,0,4,0,6,0,9,7,4,0,8,0,0>>

\* proleptic Gregorian year, month and day of a day count since 1970-01-01
\* (the year is a small integer: gmtime() has accepted the second)
CivilOfMonth(year, doy, mp) ==
    [year  |-> year + (IF mp < 10 THEN 0 ELSE 1),
     month |-> IF mp < 10 THEN mp + 3 ELSE mp - 9,
     day   |-> doy - (153 * mp + 2) \div 5 + 1]

\* doy counts from the first of March, and so does the month mp
CivilOfDay(year, doy) ==
    CivilOfMonth(year, doy, (5 * doy + 2) \div 153)

CivilOfYear(era, doe, yoe) ==
    CivilOfDay(yoe + era * 400, doe - (365 * yoe + yoe \div 4 - yoe \div 100))

\* ed is the era of 400 years and the day within it
CivilOfEra(ed) ==
    CivilOfYear(SmallInt(ed.q), ed.r,
                (ed.r - ed.r \div 1460 + ed.r \div 36524 - ed.r \div 146096) \div 365)

CivilFromDays(days) ==
    CivilOfEra(SFloorDiv(SAddSmall(days, 719468), 146097))

SmallIntText(n) ==
    IF n < 0 THEN Str("-") \o DigitsText(NatDigits(0 - n)) ELSE DigitsText(NatDigits(n))

Pad(ds, width) ==
    Zeros(IF Len(ds) < width THEN width - Len(ds) ELSE 0) \o ds

\* strftime("%Y"): the C library of the build decides whether a year below
\* 1000 is padded to four digits (glibc does not pad)
StrftimeYear(year, padsYear) ==
    DigitsText(IF padsYear THEN Pad(NatDigits(year), 4) ELSE NatDigits(year))

\* _derive_date_parts: <<yyyy, mm, dd>> as text, or the exception of fromtimestamp
\* the datetime of a civil date, formatted, or the ValueError of a year that
\* datetime does not hold
Strftime(ymd, padsYear) ==
    IF ymd.year < 1 \/ ymd.year > 9999
    THEN Raise("ValueError",
               Str("year ") \o SmallIntText(ymd.year) \o Str(" is out of range"))
    ELSE Ok(<<StrftimeYear(ymd.year, padsYear),
              DigitsText(Pad(NatDigits(ymd.month), 2)),
              DigitsText(Pad(NatDigits(ymd.day), 2))>>)

\* datetime.fromtimestamp of a whole second timet
FromTimestamp(timet, padsYear) ==
    IF CmpMag(timet.mag, TimeTLimit) > 0 \/ (~timet.neg /\ timet.mag = TimeTLimit)
    THEN Raise("OverflowError", Str("timestamp out of range for platform time_t"))
    ELSE IF CmpMag(timet.mag, IF timet.neg THEN GmtimeMin ELSE GmtimeMax) > 0
    THEN Raise("OSError", Str("[Errno 75] Value too large for defined data type"))
    ELSE Strftime(CivilFromDays(SFloorDiv(timet, 86400).q), padsYear)

_derive_date_parts(ts_ms, padsYear) ==
    FromTimestamp(SFloorDiv1000(ts_ms), padsYear)

----------------------------------------------------------------------------
(* str.encode("utf-8"), bytes.decode("utf-8") and base64.b64decode. *)

IsSurrogate(c) ==
    c >= 55296 /\ c <= 57343

EncodeCodePoint(c) ==
    IF c < 128 THEN <<c>>
    ELSE IF c < 2048 THEN <<192 + c \div 64, 128 + (c % 64)>>
    ELSE IF c < 65536 THEN <<224 + c \div 4096, 128 + ((c \div 64) % 64), 128 + (c % 64)>>
    ELSE <<240 + c \div 262144, 128 + ((c \div 4096) % 64), 128 + ((c \div 64) % 64), 128 + (c % 64)>>

RECURSIVE Utf8Bytes(_)
Utf8Bytes(s) ==
    IF Len(s) = 0 THEN <<>>
    ELSE IF Len(s) = 1 THEN EncodeCodePoint(s[1])
    ELSE LET h == Len(s) \div 2
         IN  Utf8Bytes(SubSeq(s, 1, h)) \o Utf8Bytes(SubSeq(s, h + 1, Len(s)))

Hex2(n) ==
    <<HexDigit(n \div 16), HexDigit(n % 16)>>

Hex4(n) ==
    Hex2(n \div 256) \o Hex2(n % 256)

\* s.encode("utf-8"): a lone surrogate cannot be encoded
Utf8Encode(s) ==
    IF \A i \in 1..Len(s) : ~IsSurrogate(s[i]) THEN Ok(PyBytes(Utf8Bytes(s)))
    ELSE LET a == CHOOSE i \in 1..Len(s) :
                      IsSurrogate(s[i]) /\ \A j \in 1..(i - 1) : ~IsSurrogate(s[j])
             b == CHOOSE i \in a..Len(s) :
                      /\ \A j \in a..i : IsSurrogate(s[j])
                      /\ (i = Len(s) \/ ~IsSurrogate(s[i + 1]))
         IN  Raise("UnicodeEncodeError",
                   IF a = b
                   THEN Str("'utf-8' codec can't encode character '\\u") \o Hex4(s[a])
                            \o Str("' in position ") \o SmallIntText(a - 1)
                            \o Str(": surrogates not allowed")
                   ELSE Str("'utf-8' codec can't encode characters in position ")
                            \o SmallIntText(a - 1) \o Str("-") \o SmallIntText(b - 1)
                            \o Str(": surrogates not allowed"))

IsCont(b) ==
    b >= 128 /\ b <= 191

\* how many bytes the sequence a lead byte starts has (0: not a lead byte)
SeqLen(b) ==
    IF b < 128 THEN 1
    ELSE IF b >= 194 /\ b <= 223 THEN 2
    ELSE IF b >= 224 /\ b <= 239 THEN 3
    ELSE IF b >= 240 /\ b <= 244 THEN 4
    ELSE 0

\* the second byte's range depends on the lead byte (no overlong forms, no
\* surrogates, nothing above U+10FFFF)
SecondOk(lead, b) ==
    IF lead = 224 THEN b >= 160 /\ b <= 191
    ELSE IF lead = 237 THEN b >= 128 /\ b <= 159
    ELSE IF lead = 240 THEN b >= 144 /\ b <= 191
    ELSE IF lead = 244 THEN b >= 128 /\ b <= 143
    ELSE IsCont(b)

DecodeError(bs, start, end, reason) ==
    Raise("UnicodeDecodeError",
          IF end = start + 1
          THEN Str("'utf-8' codec can't decode byte 0x") \o Hex2(bs[start])
                   \o Str(" in position ") \o SmallIntText(start - 1) \o Str(": ") \o Str(reason)
          ELSE Str("'utf-8' codec can't decode bytes in position ") \o SmallIntText(start - 1)
                   \o Str("-") \o SmallIntText(end - 2) \o Str(": ") \o Str(reason))

\* one character decoded at st.p, or the decode error there
Utf8Step(bs, st) ==
    LET i == st.p
        n == SeqLen(bs[i])
        \* the bytes after the lead that are present and acceptable
        good(k) == /\ i + k <= Len(bs)
                   /\ IF k = 1 THEN SecondOk(bs[i], bs[i + 1]) ELSE IsCont(bs[i + k])
        valid == IF n >= 2 /\ ~good(1) THEN 0
                 ELSE IF n >= 3 /\ ~good(2) THEN 1
                 ELSE IF n >= 4 /\ ~good(3) THEN 2
                 ELSE n - 1
        cp == IF n = 1 THEN bs[i]
              ELSE IF n = 2 THEN (bs[i] - 192) * 64 + (bs[i + 1] - 128)
              ELSE IF n = 3 THEN (bs[i] - 224) * 4096 + (bs[i + 1] - 128) * 64 + (bs[i + 2] - 128)
              ELSE (bs[i] - 240) * 262144 + (bs[i + 1] - 128) * 4096
                       + (bs[i + 2] - 128) * 64 + (bs[i + 3] - 128)
    IN  IF n = 0
        THEN [st EXCEPT !.err = DecodeError(bs, i, i + 1, "invalid start byte")]
        ELSE IF valid < n - 1
        THEN [st EXCEPT !.err =
                 IF i + valid + 1 > Len(bs)
                 THEN DecodeError(bs, i, i + valid + 1, "unexpected end of data")
                 ELSE DecodeError(bs, i, i + valid + 1, "invalid continuation byte")]
        ELSE [st EXCEPT !.p = i + n, !.acc = st.acc \o <<cp>>]

\* the characters that start before lim decoded one after the other (the
\* range is halved: see LongDiv)
RECURSIVE Utf8Run(_, _, _)
Utf8Run(bs, st, lim) ==
    IF st.err.exc # "none" \/ st.p >= lim THEN st
    ELSE IF lim - st.p = 1 THEN Utf8Step(bs, st)
    ELSE Utf8Run(bs, Utf8Run(bs, st, st.p + (lim - st.p) \div 2), lim)

Utf8Decode(bs) ==
    LET st == Utf8Run(bs, [p |-> 1, acc |-> <<>>, err |-> Ok(PyNone)], Len(bs) + 1)
    IN  IF st.err.exc # "none" THEN st.err ELSE Ok(PyStr(st.acc))

\* the value of a character of the base64 alphabet, 64 for any other character
B64Value(c) ==
    IF c >= 65 /\ c <= 90 THEN c - 65
    ELSE IF c >= 97 /\ c <= 122 THEN c - 71
    ELSE IF c >= 48 /\ c <= 57 THEN c + 4
    ELSE IF c = 43 THEN 62
    ELSE IF c = 47 THEN 63
    ELSE 64

\* binascii.a2b_base64 as b64decode calls it, one character at st.i:
\* characters outside the alphabet are skipped, and padding that completes a
\* quad ends the input
A2bStep(s, st) ==
    LET c == s[st.i]
        v == B64Value(c)
        next == [st EXCEPT !.i = st.i + 1]
    IN  IF c = 61
        THEN IF st.quad >= 2 /\ st.quad + st.pads + 1 >= 4 THEN [st EXCEPT !.done = TRUE]
             ELSE IF st.quad >= 2 THEN [next EXCEPT !.pads = st.pads + 1]
             ELSE next
        ELSE IF v = 64 THEN next
        ELSE IF st.quad = 0 THEN [next EXCEPT !.quad = 1, !.left = v, !.pads = 0]
        ELSE IF st.quad = 1
        THEN [next EXCEPT !.quad = 2, !.left = v % 16, !.pads = 0,
                          !.out = st.out \o <<st.left * 4 + v \div 16>>]
        ELSE IF st.quad = 2
        THEN [next EXCEPT !.quad = 3, !.left = v % 4, !.pads = 0,
                          !.out = st.out \o <<st.left * 16 + v \div 4>>]
        ELSE [next EXCEPT !.quad = 0, !.left = 0, !.pads = 0,
                          !.out = st.out \o <<st.left * 64 + v>>]

RECURSIVE A2bRun(_, _, _)
A2bRun(s, st, lim) ==
    IF st.done \/ st.i >= lim THEN st
    ELSE IF lim - st.i = 1 THEN A2bStep(s, st)
    ELSE A2bRun(s, A2bRun(s, st, st.i + (lim - st.i) \div 2), lim)

A2bBase64(s) ==
    LET st == A2bRun(s, [i |-> 1, quad |-> 0, left |-> 0, pads |-> 0, out |-> <<>>,
                         done |-> FALSE], Len(s) + 1)
    IN  IF st.done \/ st.quad = 0 THEN Ok(PyBytes(st.out))
        ELSE IF st.quad = 1
        THEN Raise("binascii.Error",
                   Str("Invalid base64-encoded string: number of data characters (")
                       \o SmallIntText((Len(st.out) \div 3) * 4 + 1)
                       \o Str(") cannot be 1 more than a multiple of 4"))
        ELSE Raise("binascii.Error", Str("Incorrect padding"))

\* base64.b64decode(s) for a str s
B64Decode(s) ==
    IF \E i \in 1..Len(s) : s[i] >= 128
    THEN Raise("ValueError", Str("string argument should contain only ASCII characters"))
    ELSE A2bBase64(s)

----------------------------------------------------------------------------
(* json.loads: the scanner of the standard decoder (strict, NaN and the    *)
(* infinities accepted).  A scan yields [ok, v, p]: the value and the       *)
(* position after it.  The text of a decode error (its line and column) is  *)
(* not kept: the handler answers every decode error alike.                  *)

NoScan == [ok |-> FALSE, v |-> PyNone, p |-> 0]
Scanned(v, p) == [ok |-> TRUE, v |-> v, p |-> p]

IsJsonWs(c) == c \in {32, 9, 10, 13}
IsDigit(c) == c >= 48 /\ c <= 57
IsHex(c) == IsDigit(c) \/ (c >= 97 /\ c <= 102) \/ (c >= 65 /\ c <= 70)
HexValue(c) == IF IsDigit(c) THEN c - 48 ELSE IF c >= 97 THEN c - 87 ELSE c - 55

\* the first position from p on that holds no white space (Len(s) + 1 at the end)
SkipWs(s, p) ==
    CHOOSE i \in p..(Len(s) + 1) :
        /\ i = Len(s) + 1 \/ ~IsJsonWs(s[i])
        /\ \A j \in p..(i - 1) : IsJsonWs(s[j])

\* the first position from p on that holds no digit
DigitsEnd(s, p) ==
    CHOOSE i \in p..(Len(s) + 1) :
        /\ i = Len(s) + 1 \/ ~IsDigit(s[i])
        /\ \A j \in p..(i - 1) : IsDigit(s[j])

HasAt(s, p, lit) ==
    p + Len(lit) - 1 <= Len(s) /\ SubSeq(s, p, p + Len(lit) - 1) = lit

DigitsOf(s, a, b) ==
    [i \in 1..(b - a) |-> s[a + i - 1] - 48]

\* float(text) for integer digits I, fraction digits F and exponent e
MakeFloat(neg, I, F, e) ==
    LET ds    == I \o F
        point == Len(I) + e
        mag   == IF point <= 0 THEN <<0>>
                 ELSE IF point >= Len(ds) THEN ds \o Zeros(point - Len(ds))
                 ELSE SubSeq(ds, 1, point)
        frac  == IF point <= 0 THEN Zeros(0 - point) \o ds
                 ELSE IF point >= Len(ds) THEN <<>>
                 ELSE SubSeq(ds, point + 1, Len(ds))
    IN  IF TooLargeForFloat(Norm(mag)) THEN PyInf(neg)
        ELSE PyFloat(neg, mag, StripTrailingZeros(frac))

\* -?(0|[1-9][0-9]*)(\.[0-9]+)?([eE][-+]?[0-9]+)? at p
ScanNumber(s, p) ==
    LET neg  == p <= Len(s) /\ s[p] = 45
        i0   == IF neg THEN p + 1 ELSE p
        i1   == IF i0 <= Len(s) /\ s[i0] = 48 THEN i0 + 1 ELSE DigitsEnd(s, i0)
        hasF == i1 + 1 <= Len(s) /\ s[i1] = 46 /\ IsDigit(s[i1 + 1])
        f1   == IF hasF THEN DigitsEnd(s, i1 + 1) ELSE i1
        sgn  == f1 + 1 <= Len(s) /\ s[f1] \in {101, 69} /\ s[f1 + 1] \in {43, 45}
        e0   == IF sgn THEN f1 + 2 ELSE f1 + 1
        hasE == f1 <= Len(s) /\ s[f1] \in {101, 69} /\ e0 <= Len(s) /\ IsDigit(s[e0])
        e1   == IF hasE THEN DigitsEnd(s, e0) ELSE f1
        I    == DigitsOf(s, i0, i1)
        F    == IF hasF THEN DigitsOf(s, i1 + 1, f1) ELSE <<>>
        eAbs == IF hasE THEN DigitsNat(DigitsOf(s, e0, e1)) ELSE 0
        e    == IF hasE /\ sgn /\ s[f1 + 1] = 45 THEN 0 - eAbs ELSE eAbs
    IN  IF i1 = i0 THEN NoScan
        ELSE IF hasF \/ hasE THEN Scanned(MakeFloat(neg, I, F, e), e1)
        ELSE Scanned(PyInt(neg, I), i1)

\* one character or escape of a string taken at st.p; the closing quote ends it
StringStep(s, st) ==
    LET p == st.p
        hex4(q) == q + 3 <= Len(s) /\ \A k \in q..(q + 3) : IsHex(s[k])
        val(q)  == HexValue(s[q]) * 4096 + HexValue(s[q + 1]) * 256
                       + HexValue(s[q + 2]) * 16 + HexValue(s[q + 3])
        paired  == /\ val(p + 2) >= 55296 /\ val(p + 2) <= 56319
                   /\ HasAt(s, p + 6, <<92, 117>>) /\ hex4(p + 8)
                   /\ val(p + 8) >= 56320 /\ val(p + 8) <= 57343
        take(c, n) == [st EXCEPT !.p = p + n, !.acc = st.acc \o <<c>>]
        fail == [st EXCEPT !.end = "fail"]
    IN  IF s[p] = 34 THEN [st EXCEPT !.p = p + 1, !.end = "closed"]
        ELSE IF s[p] < 32 THEN fail
        ELSE IF s[p] # 92 THEN take(s[p], 1)
        ELSE IF p + 1 > Len(s) THEN fail
        ELSE IF s[p + 1] \in {34, 92, 47} THEN take(s[p + 1], 2)
        ELSE IF s[p + 1] = 98 THEN take(8, 2)
        ELSE IF s[p + 1] = 102 THEN take(12, 2)
        ELSE IF s[p + 1] = 110 THEN take(10, 2)
        ELSE IF s[p + 1] = 114 THEN take(13, 2)
        ELSE IF s[p + 1] = 116 THEN take(9, 2)
        ELSE IF s[p + 1] # 117 \/ ~hex4(p + 2) THEN fail
        ELSE IF paired
        THEN take(65536 + (val(p + 2) - 55296) * 1024 + (val(p + 8) - 56320), 12)
        ELSE take(val(p + 2), 6)

RECURSIVE StringRun(_, _, _)
StringRun(s, st, lim) ==
    IF st.end # "open" \/ st.p >= lim THEN st
    ELSE IF lim - st.p = 1 THEN StringStep(s, st)
    ELSE StringRun(s, StringRun(s, st, st.p + (lim - st.p) \div 2), lim)

\* the characters of a string from p (after the opening quote) to its closing quote
ScanString(s, p) ==
    LET st == StringRun(s, [p |-> p, acc |-> <<>>, end |-> "open"], Len(s) + 1)
    IN  IF st.end = "closed" THEN Scanned(PyStr(st.acc), st.p) ELSE NoScan

RECURSIVE ScanOnce(_, _)
RECURSIVE ScanItems(_, _, _)
RECURSIVE ScanMembers(_, _, _, _)

\* the items of an array from p (an item is due) to its closing bracket
ScanItems(s, p, items) ==
    LET item == ScanOnce(s, p)
        q    == SkipWs(s, item.p)
    IN  IF ~item.ok \/ q > Len(s) THEN NoScan
        ELSE IF s[q] = 93 THEN Scanned(PyList(items \o <<item.v>>), q + 1)
        ELSE IF s[q] = 44 THEN ScanItems(s, SkipWs(s, q + 1), items \o <<item.v>>)
        ELSE NoScan

\* the members of an object from p (a key is due) to its closing brace
ScanMembers(s, p, keys, vals) ==
    IF p > Len(s) \/ s[p] # 34 THEN NoScan
    ELSE LET key == ScanString(s, p + 1)
             c   == SkipWs(s, key.p)
         IN  IF ~key.ok \/ c > Len(s) \/ s[c] # 58 THEN NoScan
             ELSE LET val == ScanOnce(s, SkipWs(s, c + 1))
                      q   == SkipWs(s, val.p)
                  IN  IF ~val.ok \/ q > Len(s) THEN NoScan
                      ELSE IF s[q] = 125
                      THEN Scanned(PyDict(keys \o <<key.v.s>>, vals \o <<val.v>>), q + 1)
                      ELSE IF s[q] = 44
                      THEN ScanMembers(s, SkipWs(s, q + 1), keys \o <<key.v.s>>,
                                       vals \o <<val.v>>)
                      ELSE NoScan

ScanOnce(s, p) ==
    IF p > Len(s) THEN NoScan
    ELSE IF s[p] = 34 THEN ScanString(s, p + 1)
    ELSE IF s[p] = 123
    THEN LET q == SkipWs(s, p + 1)
         IN  IF q <= Len(s) /\ s[q] = 125 THEN Scanned(PyDict(<<>>, <<>>), q + 1)
             ELSE ScanMembers(s, q, <<>>, <<>>)
    ELSE IF s[p] = 91
    THEN LET q == SkipWs(s, p + 1)
         IN  IF q <= Len(s) /\ s[q] = 93 THEN Scanned(PyList(<<>>), q + 1)
             ELSE ScanItems(s, q, <<>>)
    ELSE IF HasAt(s, p, Str("null")) THEN Scanned(PyNone, p + 4)
    ELSE IF HasAt(s, p, Str("true")) THEN Scanned(PyBool(TRUE), p + 4)
    ELSE IF HasAt(s, p, Str("false")) THEN Scanned(PyBool(FALSE), p + 5)
    ELSE IF HasAt(s, p, Str("NaN")) THEN Scanned(PyNan, p + 3)
    ELSE IF HasAt(s, p, Str("Infinity")) THEN Scanned(PyInf(FALSE), p + 8)
    ELSE IF HasAt(s, p, Str("-Infinity")) THEN Scanned(PyInf(TRUE), p + 9)
    ELSE ScanNumber(s, p)

\* json.loads(s) for a str s
JsonLoads(s) ==
    IF Len(s) > 0 /\ s[1] = 65279
    THEN Raise("JSONDecodeError", Str("Unexpected UTF-8 BOM (decode using utf-8-sig)"))
    ELSE LET r == ScanOnce(s, SkipWs(s, 1))
         IN  IF ~r.ok THEN Raise("JSONDecodeError", Str("Expecting value"))
             ELSE IF SkipWs(s, r.p) # Len(s) + 1 THEN Raise("JSONDecodeError", Str("Extra data"))
             ELSE Ok(r.v)

----------------------------------------------------------------------------
(* json.dumps with its defaults (ensure_ascii, ", " and ": ").  A float is *)
(* written by repr: the model's floats carry their shortest digits.         *)

StripLeadingZeros(ds) ==
    IF \A i \in 1..Len(ds) : ds[i] = 0 THEN <<>>
    ELSE SubSeq(ds, CHOOSE i \in 1..Len(ds) : ds[i] # 0 /\ \A j \in 1..(i - 1) : ds[j] = 0,
                Len(ds))

FloatRepr(x) ==
    IF x.k = "nan" THEN Str("NaN")
    ELSE IF x.k = "inf" THEN (IF x.neg THEN Str("-Infinity") ELSE Str("Infinity"))
    ELSE LET sign  == IF x.neg THEN Str("-") ELSE <<>>
             zero  == IsZero(x.mag) /\ x.frac = <<>>
             decpt == IF ~IsZero(x.mag) THEN Len(x.mag)
                      ELSE Len(StripLeadingZeros(x.frac)) - Len(x.frac)
             sig   == IF ~IsZero(x.mag) THEN StripTrailingZeros(x.mag \o x.frac)
                      ELSE StripLeadingZeros(x.frac)
             e     == decpt - 1
             eAbs  == IF e < 0 THEN 0 - e ELSE e
         IN  IF zero THEN sign \o Str("0.0")
             ELSE IF decpt > 16 \/ decpt < -3
             THEN sign \o DigitsText(<<sig[1]>>)
                      \o (IF Len(sig) > 1 THEN Str(".") \o DigitsText(Tail(sig)) ELSE <<>>)
                      \o Str("e") \o (IF e < 0 THEN Str("-") ELSE Str("+"))
                      \o DigitsText(Pad(NatDigits(eAbs), 2))
             ELSE sign \o DigitsText(x.mag) \o Str(".")
                      \o (IF x.frac = <<>> THEN Str("0") ELSE DigitsText(x.frac))

\* one character of a str, escaped as ensure_ascii escapes it
EscapeChar(c) ==
    IF c = 34 THEN Str("\\\"")
    ELSE IF c = 92 THEN Str("\\\\")
    ELSE IF c = 10 THEN Str("\\n")
    ELSE IF c = 13 THEN Str("\\r")
    ELSE IF c = 9 THEN Str("\\t")
    ELSE IF c = 8 THEN Str("\\b")
    ELSE IF c = 12 THEN Str("\\f")
    ELSE IF c >= 32 /\ c <= 126 THEN <<c>>
    ELSE IF c < 65536 THEN Str("\\u") \o Hex4(c)
    ELSE Str("\\u") \o Hex4(55296 + (c - 65536) \div 1024)
             \o Str("\\u") \o Hex4(56320 + ((c - 65536) % 1024))

RECURSIVE EscapeText(_)
EscapeText(s) ==
    IF Len(s) = 0 THEN <<>>
    ELSE IF Len(s) = 1 THEN EscapeChar(s[1])
    ELSE LET h == Len(s) \div 2
         IN  EscapeText(SubSeq(s, 1, h)) \o EscapeText(SubSeq(s, h + 1, Len(s)))

QuoteText(s) ==
    Str("\"") \o EscapeText(s) \o Str("\"")

\* whether json.dumps accepts the value (bytes are not JSON serializable)
RECURSIVE Serializable(_)
Serializable(v) ==
    IF v.t = "bytes" THEN FALSE
    ELSE IF v.t = "list" THEN \A i \in 1..Len(v.items) : Serializable(v.items[i])
    ELSE IF v.t = "dict" THEN \A i \in 1..Len(v.vals) : Serializable(v.vals[i])
    ELSE TRUE

\* a dict keeps one entry per key: the position of the key's first
\* appearance, the value of its last
DictEntries(d) ==
    LET firsts == {i \in 1..Len(d.keys) : \A j \in 1..(i - 1) : d.keys[j] # d.keys[i]}
        last(i) == CHOOSE j \in i..Len(d.keys) :
                       d.keys[j] = d.keys[i] /\ \A k \in (j + 1)..Len(d.keys) : d.keys[k] # d.keys[i]
        nth(n)  == CHOOSE i \in firsts : Cardinality({j \in firsts : j < i}) = n - 1
    IN  [n \in 1..Cardinality(firsts) |-> [key |-> d.keys[nth(n)], val |-> d.vals[last(nth(n))]]]

RECURSIVE DumpText(_, _, _)
RECURSIVE DumpJoin(_, _, _)
DumpJoin(parts, i, sep) ==
    IF i > Len(parts) THEN <<>>
    ELSE (IF i > 1 THEN sep ELSE <<>>) \o parts[i] \o DumpJoin(parts, i + 1, sep)

DumpText(v, itemSep, keySep) ==
    IF v.t = "None" THEN Str("null")
    ELSE IF v.t = "bool" THEN (IF v.b THEN Str("true") ELSE Str("false"))
    ELSE IF v.t = "int" THEN IntText(v)
    ELSE IF v.t = "float" THEN FloatRepr(v)
    ELSE IF v.t = "str" THEN QuoteText(v.s)
    ELSE IF v.t = "list"
    THEN Str("[")
             \o DumpJoin([i \in 1..Len(v.items) |-> DumpText(v.items[i], itemSep, keySep)],
                         1, itemSep)
             \o Str("]")
    ELSE LET es == DictEntries(v)
         IN  Str("{")
                 \o DumpJoin([i \in 1..Len(es) |->
                                 QuoteText(es[i].key) \o keySep
                                     \o DumpText(es[i].val, itemSep, keySep)], 1, itemSep)
                 \o Str("}")

\* json.dumps(v, separators=(itemSep, keySep))
JsonDumpsWith(v, itemSep, keySep) ==
    IF Serializable(v) THEN Ok(PyStr(DumpText(v, itemSep, keySep)))
    ELSE Raise("TypeError", Str("Object of type bytes is not JSON serializable"))

\* json.dumps(v)
JsonDumps(v) ==
    JsonDumpsWith(v, Str(", "), Str(": "))

\* dict.get(key): None when the key is absent
DictGet(d, key) ==
    IF \E i \in 1..Len(d.keys) : d.keys[i] = key
    THEN d.vals[CHOOSE i \in 1..Len(d.keys) :
                    d.keys[i] = key /\ \A j \in (i + 1)..Len(d.keys) : d.keys[j] # key]
    ELSE PyNone

----------------------------------------------------------------------------
(* The process and the latest invocation. *)

VARIABLES
    environ,    \* os.environ when the module was imported: name -> <<>> or <<value>>
    boto3,      \* "module", or "None" when the import failed (lines 10-13)
    padsYear,   \* whether strftime of the build pads a year below 1000
    S3,         \* the global client handle: "None" or "client"
    pc,         \* "idle", or "invoked" while lambda_handler is running
    event,      \* the event of the latest invocation
    context,    \* its context
    response,   \* what it returned
    calls,      \* the store calls it made, each with its outcome
    inits,      \* the boto3.client("s3") calls it made, each with its outcome
    log         \* the records it printed

vars == <<environ, boto3, padsYear, S3, pc, event, context, response, calls, inits, log>>

\* os.getenv(name, default)
Getenv(name, default) ==
    IF environ[name] = <<>> THEN default ELSE environ[name][1]

\* str.upper() of ASCII text
Upper(s) ==
    [i \in 1..Len(s) |-> IF s[i] >= 97 /\ s[i] <= 122 THEN s[i] - 32 ELSE s[i]]

RAW_BUCKET_NAME ==
    Str(Getenv("RAW_BUCKET_NAME", "zoolanding-data-raw"))

LOG_LEVEL ==
    Upper(Str(Getenv("LOG_LEVEL", "INFO")))

DRY_RUN ==
    Getenv("DRY_RUN", "0") \in {"1", "true", "TRUE", "yes", "YES"}

\* order.get(level, 20)
LevelOrder(level) ==
    IF level = Str("DEBUG") THEN 10
    ELSE IF level = Str("INFO") THEN 20
    ELSE IF level = Str("ERROR") THEN 40
    ELSE 20

_should_log(level) ==
    LevelOrder(Str(level)) >= LevelOrder(LOG_LEVEL)

\* _log: the records printed by one call (none below LOG_LEVEL)
_log(level, message, fields) ==
    IF _should_log(level)
    THEN <<[level |-> level, message |-> Str(message), fields |-> fields]>>
    ELSE <<>>

_json_response(status, payload) ==
    [statusCode |-> status,
     headers    |-> [name \in {"Content-Type"} |-> "application/json"],
     body       |-> JsonDumpsWith(payload, Str(","), Str(":")).v.s]

_bad_request(msg) ==
    _json_response(400, PyDict(<<Str("ok"), Str("error")>>, <<PyBool(FALSE), PyStr(msg)>>))

_server_error ==
    _json_response(500, PyDict(<<Str("ok"), Str("error")>>,
                               <<PyBool(FALSE), PyStr(Str("Internal error"))>>))

\* _get_request_id; now is int(datetime.now().timestamp() * 1000) as digits
_get_request_id(ctx, now) ==
    LET reqId == IF ctx.attr = "present" THEN ctx.aws_request_id ELSE PyNone
    IN  IF reqId.t = "str" /\ Len(reqId.s) >= 8 THEN LastN(reqId.s, 8)
        ELSE LastN(Str("0x") \o HexDigits(now), 8)

_decode_body(ev) ==
    LET body == ev.body
    IN  IF body.t = "None" \/ (body.t = "str" /\ body.s = <<>>) THEN Raise("ValueError", Str("Missing body"))
        ELSE IF ev.isBase64Encoded
        THEN IF body.t = "str"
             THEN LET raw == B64Decode(body.s)
                  IN  IF raw.exc # "none" THEN raw ELSE Utf8Decode(raw.v.bs)
             ELSE Raise("ValueError", Str("Body is base64Encoded but not a string"))
        ELSE IF body.t = "bytes" THEN Utf8Decode(body.bs)
        ELSE IF body.t = "str" THEN Ok(body)
        ELSE JsonDumps(body)

\* type(v).__name__
TypeName(v) ==
    IF v.t = "None" THEN "NoneType" ELSE v.t

\* the exception classes that except ValueError catches
IsValueError(exc) ==
    exc \in {"ValueError", "UnicodeDecodeError", "UnicodeEncodeError", "binascii.Error",
             "JSONDecodeError"}

\* traceback.format_exc(): the frames are left out, the last line is kept
FormatExc(e) ==
    Str("Traceback (most recent call last): ") \o Str(e.exc) \o Str(": ") \o e.msg

\* _get_s3_client without the check of line 102: a client is constructed on
\* every call, also when the global already holds one
_get_s3_client_unguarded(clientRaises) ==
    IF DRY_RUN
    THEN [r |-> Ok("None"), S3 |-> S3, inits |-> <<>>, log |-> <<>>]
    ELSE IF boto3 = "None"
    THEN [r |-> Raise("RuntimeError",
                      Str("boto3 is not available and DRY_RUN is disabled; cannot upload to S3")),
          S3 |-> S3, inits |-> <<>>, log |-> <<>>]
    ELSE IF clientRaises
    THEN [r |-> Raise("BotoCoreError", Str("An unspecified error occurred")),
          S3 |-> S3, inits |-> <<"raised">>, log |-> <<>>]
    ELSE [r |-> Ok("client"), S3 |-> "client", inits |-> <<"ok">>, log |-> <<>>]

\* _get_s3_client: the handle (or the exception), the new global, the records
\* printed and the constructor calls made; clientRaises is whether
\* boto3.client("s3") raises in this invocation
_get_s3_client(clientRaises) ==
    IF S3 # "None" THEN [r |-> Ok(S3), S3 |-> S3, log |-> <<>>, inits |-> <<>>]
    ELSE IF DRY_RUN
    THEN [r |-> Ok("None"), S3 |-> S3, inits |-> <<>>,
          log |-> _log("DEBUG", "DRY_RUN enabled; skipping S3 client init", <<>>)]
    ELSE IF boto3 = "None"
    THEN [r |-> Raise("RuntimeError",
                      Str("boto3 is not available and DRY_RUN is disabled; cannot upload to S3")),
          S3 |-> S3, inits |-> <<>>,
          log |-> _log("ERROR",
                       "boto3 not available and DRY_RUN is disabled; cannot upload to S3", <<>>)]
    ELSE IF clientRaises
    THEN [r |-> Raise("BotoCoreError", Str("An unspecified error occurred")),
          S3 |-> S3, inits |-> <<"raised">>, log |-> <<>>]
    ELSE [r |-> Ok("client"), S3 |-> "client", inits |-> <<"ok">>,
          log |-> _log("DEBUG", "Initialized S3 client", <<>>)]

\* line 160: the key of the object
StorageKey(app_name, parts, ts_ms, short_reqId) ==
    app_name \o Str("/") \o parts[1] \o Str("/") \o parts[2] \o Str("/") \o parts[3]
        \o Str("/") \o IntText(ts_ms) \o Str("-") \o short_reqId \o Str(".json")

\* a put_object call that uploads json.dumps(payload) in place of the decoded
\* body text
PutRequestReserialized(key, body_str, putRaises) ==
    [op |-> "put_object", Bucket |-> RAW_BUCKET_NAME, Key |-> key,
     Body |-> Utf8Encode(JsonDumps(JsonLoads(body_str).v).v.s).v.bs,
     ContentType |-> "application/json",
     outcome |-> IF putRaises THEN "raised" ELSE "ok"]

\* lines 179-184: the put_object call on the decoded body text, and whether
\* the store raised
PutRequest(key, body_str, putRaises) ==
    [op |-> "put_object", Bucket |-> RAW_BUCKET_NAME, Key |-> key,
     Body |-> Utf8Encode(body_str).v.bs, ContentType |-> "application/json",
     outcome |-> IF putRaises THEN "raised" ELSE "ok"]

\* lines 210-217: the body of the success response
SuccessBody(key, size_bytes) ==
    PyDict(<<Str("ok"), Str("bucket"), Str("key"), Str("size")>>
               \o (IF DRY_RUN THEN <<Str("dryRun")>> ELSE <<>>),
           <<PyBool(TRUE), PyStr(RAW_BUCKET_NAME), PyStr(key), size_bytes>>
               \o (IF DRY_RUN THEN <<PyBool(TRUE)>> ELSE <<>>))

\* an invocation that repeats a put_object call that raised
OutcomeRetried(resp, handle, storeCalls, clientInits, printed) ==
    [response |-> resp, S3 |-> handle,
     calls |-> IF resp.statusCode = 500 THEN storeCalls \o storeCalls ELSE storeCalls,
     inits |-> clientInits, log |-> printed]

\* what one invocation leaves behind
Outcome(resp, handle, storeCalls, clientInits, printed) ==
    [response |-> resp, S3 |-> handle, calls |-> storeCalls, inits |-> clientInits,
     log |-> printed]

\* lines 220-227: except ValueError, except Exception; printed is what the
\* invocation has logged before the exception
Caught(e, short_reqId, printed) ==
    IF IsValueError(e.exc)
    THEN Outcome(_bad_request(e.msg), S3, <<>>, <<>>,
                 printed \o _log("ERROR", "Bad request",
                                 [requestId |-> PyStr(short_reqId), error |-> PyStr(e.msg)]))
    ELSE Outcome(_server_error, S3, <<>>, <<>>,
                 printed \o _log("ERROR", "Unhandled error",
                                 [requestId |-> PyStr(short_reqId), error |-> PyStr(e.msg),
                                  stack |-> PyStr(FormatExc(e))]))

\* lines 196-205: the record of a failed upload
UploadFailed(s3e, key, app_name, short_reqId) ==
    _log("ERROR", "S3 upload failed",
         [requestId |-> PyStr(short_reqId), appName |-> app_name,
          bucket |-> PyStr(RAW_BUCKET_NAME), key |-> PyStr(key),
          error |-> PyStr(s3e.msg), stack |-> PyStr(FormatExc(s3e))])

\* lines 185-194: the record of an upload
Uploaded(key, size_bytes, ts_ms, app_name, short_reqId) ==
    _log("INFO", "Uploaded analytics payload",
         [requestId |-> PyStr(short_reqId), appName |-> app_name,
          timestampMs |-> ts_ms, bucket |-> PyStr(RAW_BUCKET_NAME),
          key |-> PyStr(key), size |-> size_bytes])

\* lines 165-175: the record of a dry run
WouldUpload(key, size_bytes, ts_ms, app_name, short_reqId) ==
    _log("INFO", "Dry-run: would upload",
         [requestId |-> PyStr(short_reqId), appName |-> app_name,
          timestampMs |-> ts_ms, bucket |-> PyStr(RAW_BUCKET_NAME),
          key |-> PyStr(key), size |-> size_bytes, dryRun |-> PyBool(TRUE)])

\* lines 177-207 and 210-218: the live upload, given what _get_s3_client
\* returned and the put_object call that follows it
Upload(client, put, key, size_bytes, ts_ms, app_name, short_reqId, log3) ==
    IF client.r.exc # "none"
    THEN Outcome(_server_error, client.S3, <<>>, client.inits,
                 log3 \o client.log \o UploadFailed(client.r, key, app_name, short_reqId))
    ELSE IF put.outcome = "raised"
    THEN Outcome(_server_error, client.S3, <<put>>, client.inits,
                 log3 \o client.log
                      \o UploadFailed(Raise("ClientError",
                                            Str("An error occurred (AccessDenied) when calling the PutObject operation: Access Denied")),
                                      key, app_name, short_reqId))
    ELSE Outcome(_json_response(200, SuccessBody(key, size_bytes)), client.S3, <<put>>,
                 client.inits,
                 log3 \o client.log \o Uploaded(key, size_bytes, ts_ms, app_name, short_reqId))

\* lines 163-218, 6) upload and 7) return success: encoded is
\* body_str.encode("utf-8")
Stored(encoded, key, ts_ms, app_name, body_str, short_reqId, log3) ==
    IF encoded.exc # "none" THEN {Caught(encoded, short_reqId, log3)}
    ELSE IF DRY_RUN
    THEN {Outcome(_json_response(200, SuccessBody(key, PyInt(FALSE, NatDigits(Len(encoded.v.bs))))),
                  S3, <<>>, <<>>,
                  log3 \o WouldUpload(key, PyInt(FALSE, NatDigits(Len(encoded.v.bs))),
                                      ts_ms, app_name, short_reqId))}
    ELSE {Upload(_get_s3_client(clientRaises), PutRequest(key, body_str, putRaises),
                 key, PyInt(FALSE, NatDigits(Len(encoded.v.bs))), ts_ms, app_name,
                 short_reqId, log3) :
              clientRaises \in BOOLEAN, putRaises \in BOOLEAN}

\* lines 156-160, 4) derive date parts and 5) build the key: parts is what
\* _derive_date_parts returned
Dated(parts, ts_ms, app_name, body_str, short_reqId, log2) ==
    IF parts.exc # "none" THEN {Caught(parts, short_reqId, log2)}
    ELSE Stored(Utf8Encode(body_str),
                StorageKey(app_name.s, parts.v, ts_ms, short_reqId),
                ts_ms, app_name, body_str, short_reqId,
                log2 \o _log("DEBUG", "Derived date parts",
                             [requestId |-> PyStr(short_reqId), yyyy |-> PyStr(parts.v[1]),
                              mm |-> PyStr(parts.v[2]), dd |-> PyStr(parts.v[3])]))

\* lines 145-153: the record of a validated payload
ValidatedPayload(ts_ms, ts, app_name, payload, short_reqId) ==
    _log("DEBUG", "Validated payload",
         [requestId |-> PyStr(short_reqId), appName |-> app_name,
          timestampType |-> PyStr(Str(TypeName(ts))),
          timestampMs |-> ts_ms,
          keys |-> PyList([i \in 1..(IF Len(DictEntries(payload)) < 12
                                      THEN Len(DictEntries(payload))
                                      ELSE 12) |->
                              PyStr(DictEntries(payload)[i].key)])])

\* lines 140-153: norm is what _normalize_timestamp_to_ms returned for ts
Normalized(norm, ts, app_name, payload, body_str, short_reqId, log1) ==
    IF IsValueError(norm.exc)
    THEN {Outcome(_bad_request(norm.msg), S3, <<>>, <<>>,
                  log1 \o [i \in 1..Len(_log("ERROR", "", <<>>)) |->
                              [level |-> "ERROR", message |-> norm.msg,
                               fields |-> [requestId |-> PyStr(short_reqId),
                                           appName |-> app_name]]])}
    ELSE IF norm.exc # "none" THEN {Caught(norm, short_reqId, log1)}
    ELSE Dated(_derive_date_parts(norm.v, padsYear), norm.v, app_name, body_str, short_reqId,
               log1 \o ValidatedPayload(norm.v, ts, app_name, payload, short_reqId))

\* lines 135-141, 3) validate fields: app_name and ts are payload.get("appName")
\* and payload.get("timestamp")
Fields(app_name, ts, payload, body_str, short_reqId, log1) ==
    IF app_name.t # "str" \/ StripIsEmpty(app_name.s)
    THEN {Outcome(_bad_request(Str("Missing or invalid appName")), S3, <<>>, <<>>,
                  log1 \o _log("ERROR", "Invalid appName", [requestId |-> PyStr(short_reqId)]))}
    ELSE Normalized(_normalize_timestamp_to_ms(ts), ts, app_name, payload, body_str,
                    short_reqId, log1)

\* lines 128-135, 2) parse JSON: loaded is what json.loads returned; a payload
\* that is no dict has no get
Parsed(loaded, body_str, short_reqId, log1) ==
    IF loaded.exc # "none"
    THEN {Outcome(_bad_request(Str("Body is not valid JSON")), S3, <<>>, <<>>,
                  log1 \o _log("ERROR", "Invalid JSON",
                               [requestId |-> PyStr(short_reqId), error |-> PyStr(loaded.msg)]))}
    ELSE IF loaded.v.t # "dict"
    THEN {Caught(Raise("AttributeError",
                       Str("'") \o Str(TypeName(loaded.v))
                           \o Str("' object has no attribute 'get'")), short_reqId, log1)}
    ELSE Fields(DictGet(loaded.v, Str("appName")), DictGet(loaded.v, Str("timestamp")),
                loaded.v, body_str, short_reqId, log1)

\* lines 124-129, 1) decode body: decoded is what _decode_body returned
Decoded(decoded, short_reqId) ==
    IF decoded.exc # "none" THEN {Caught(decoded, short_reqId, <<>>)}
    ELSE Parsed(JsonLoads(decoded.v.s), decoded.v.s, short_reqId,
                _log("DEBUG", "Decoded body",
                     [requestId |-> PyStr(short_reqId),
                      decodedLen |-> PyInt(FALSE, NatDigits(Len(decoded.v.s)))]))

\* lambda_handler(event, context): the ways the invocation can end.  now is
\* the clock _get_request_id reads; whether boto3.client("s3") raises and
\* whether put_object raises is decided outside the program, so a live upload
\* has one outcome for each.
lambda_handler(ev, ctx, now) ==
    Decoded(_decode_body(ev), _get_request_id(ctx, now))

(***************************************************************************)
(* The invocations.  An event carries the body and the isBase64Encoded     *)
(* flag, a context carries aws_request_id or lacks the attribute.          *)
(***************************************************************************)

\* an API Gateway proxy event whose body is text
Post(text) == [body |-> PyStr(text), isBase64Encoded |-> FALSE]

\* the payload {"appName":"demo","timestamp":<number>} as the client sends it
Stamped(number) == Post(Str("{\"appName\":\"demo\",\"timestamp\":") \o Str(number) \o Str("}"))

DemoBody == Str("{\"appName\":\"demo\",\"timestamp\":1700000000}")

\* json.dumps(sample) of local_test.py
SampleBody ==
    Str("{\"appName\": \"zoo_landing_page\", \"timestamp\": 1756276595877, \"name\": \"cta_click\"}")

\* {"appName":"café","timestamp":1700000000.5,"note":"€"}
AccentBody ==
    Str("{\"appName\":\"caf") \o <<233>> \o Str("\",\"timestamp\":1700000000.5,\"note\":\"")
        \o <<8364>> \o Str("\"}")

\* a str that holds a lone surrogate, which UTF-8 cannot encode
SurrogateBody ==
    Str("{\"appName\":\"demo\",\"timestamp\":1700000000,\"x\":\"") \o <<55296>> \o Str("\"}")

\* the bytes of DemoBody, and their base64 text
DemoBytes == Utf8Encode(DemoBody).v.bs
DemoBase64 == Str("eyJhcHBOYW1lIjoiZGVtbyIsInRpbWVzdGFtcCI6MTcwMDAwMDAwMH0=")

TopLevelEvents ==
    << Post(Str("[1,2]")), Post(Str("null")), Post(Str("\"str\"")), Post(Str("5")),
       Post(Str("{not valid")), Post(Str("{}")) >>

AppNameEvents ==
    << Post(Str("{\"timestamp\":1700000000}")),
       Post(Str("{\"appName\":\"   \",\"timestamp\":1700000000}")),
       Post(Str("{\"appName\":\"\",\"timestamp\":1700000000}")),
       Post(Str("{\"appName\":42,\"timestamp\":1700000000}")),
       Post(Str("{\"appName\":null,\"timestamp\":1700000000}")),
       Post(Str("{\"appName\":[\"demo\"],\"timestamp\":1700000000}")),
       Post(Str("{\"appName\":\" a/b \",\"timestamp\":1700000000}")) >>

TimestampEvents ==
    << Post(Str("{\"appName\":\"demo\"}")),
       Stamped("\"1700000000\""), Stamped("null"), Stamped("true"), Stamped("false"),
       Stamped("[1700000000]"), Stamped("{}"), Stamped("NaN"), Stamped("Infinity"),
       Stamped("-Infinity"), Stamped("1e400"),
       Stamped("999999999999"), Stamped("1000000000000"), Stamped("999999999999.875"),
       Stamped("1700000000000.75"), Stamped("1700000000000"), Stamped("-1.5"),
       Stamped("-1"), Stamped("0"), Stamped("253402300799"),
       Stamped("253402300800"), Stamped("-31000000000"), Stamped("-62135596800"),
       Stamped("-62135596801"), Stamped("1e20"), Stamped("1e300"), Stamped("-1e306"),
       Stamped("0.5"), Stamped("0.0009765625"), Stamped("-0.0009765625"),
       Post(Str("{\"appName\":\"demo\",\"timestamp\":1") \o [i \in 1..400 |-> 48] \o Str("}")) >>

BodyEvents ==
    << Post(DemoBody), Post(SampleBody), Post(AccentBody), Post(SurrogateBody),
       [body |-> PyNone, isBase64Encoded |-> FALSE],
       [body |-> PyStr(<<>>), isBase64Encoded |-> FALSE],
       [body |-> PyBytes(DemoBytes), isBase64Encoded |-> FALSE],
       [body |-> PyBytes(Utf8Encode(AccentBody).v.bs), isBase64Encoded |-> FALSE],
       [body |-> PyBytes(<<255>>), isBase64Encoded |-> FALSE],
       [body |-> PyBytes(<<>>), isBase64Encoded |-> FALSE],
       [body |-> PyStr(DemoBase64), isBase64Encoded |-> TRUE],
       [body |-> PyStr(Str("e30")), isBase64Encoded |-> TRUE],
       [body |-> PyBytes(DemoBytes), isBase64Encoded |-> TRUE],
       [body |-> PyDict(<<Str("appName"), Str("timestamp")>>,
                        <<PyStr(Str("demo")), PyInt(FALSE, NatDigits(1700000000))>>),
        isBase64Encoded |-> FALSE],
       [body |-> PyDict(<<Str("appName"), Str("timestamp")>>,
                        <<PyStr(Str("caf") \o <<233>>), PyBool(TRUE)>>),
        isBase64Encoded |-> FALSE],
       [body |-> PyDict(<<Str("appName")>>, <<PyBytes(<<100>>)>>), isBase64Encoded |-> FALSE],
       [body |-> PyInt(FALSE, <<5>>), isBase64Encoded |-> FALSE],
       [body |-> PyList(<<PyInt(FALSE, <<1>>)>>), isBase64Encoded |-> FALSE] >>

Events == BodyEvents \o TopLevelEvents \o AppNameEvents \o TimestampEvents

\* a Lambda context object with an aws_request_id
Ctx(id) == [attr |-> "present", aws_request_id |-> id]

Contexts ==
    << Ctx(PyStr(Str("12345678-aaaa-bbbb-cccc-1234ABCD1234"))),
       Ctx(PyStr(Str("12345678-aaaa-bbbb-cccc-1234567890ab"))),
       Ctx(PyStr(Str("ABCD1234"))),
       Ctx(PyStr(Str("short"))),
       Ctx(PyInt(FALSE, NatDigits(12345678))),
       Ctx(PyNone),
       [attr |-> "absent", aws_request_id |-> PyNone] >>

\* int(datetime.now(tz=timezone.utc).timestamp() * 1000) at two instants
Clock == { [i \in 1..13 |-> Str("1756276595877")[i] - 48],
           [i \in 1..13 |-> Str("1700000000000")[i] - 48] }

\* every event under the first context, the first events under every context
Invocations ==
    {[event |-> Events[i], context |-> Contexts[1]] : i \in 1..Len(Events)}
        \cup {[event |-> Events[i], context |-> Contexts[j]] : i \in 1..2, j \in 1..Len(Contexts)}

(***************************************************************************)
(* The process.  The module is imported once (Init); the runtime then      *)
(* delivers events one at a time and lambda_handler answers each.          *)
(***************************************************************************)

EnvNames == {"RAW_BUCKET_NAME", "LOG_LEVEL", "DRY_RUN"}

\* os.environ with the given settings, everything else unset
Env(bucket, level, dry) ==
    [name \in EnvNames |->
        IF name = "RAW_BUCKET_NAME" THEN bucket ELSE IF name = "LOG_LEVEL" THEN level ELSE dry]

DryRunSettings ==
    { <<>>, <<"0">>, <<"1">>, <<"true">>, <<"TRUE">>, <<"yes">>, <<"YES">>,
      <<"True">>, <<"tRuE">>, <<"Yes">>, <<"false">>, <<"">> }

Environments ==
    {Env(<<>>, <<>>, dry) : dry \in DryRunSettings}
        \cup {Env(bucket, level, dry) : bucket \in {<<>>, <<"my-raw-bucket">>},
                                        level \in {<<"debug">>, <<"ERROR">>},
                                        dry \in {<<>>, <<"1">>}}

NoResponse == [statusCode |-> 0, headers |-> <<>>, body |-> <<>>]
NoEvent == [body |-> PyNone, isBase64Encoded |-> FALSE]
NoContext == [attr |-> "absent", aws_request_id |-> PyNone]

\* the module has been imported, nothing has been invoked
Init ==
    /\ environ \in Environments
    /\ boto3 \in {"module", "None"}
    /\ padsYear \in BOOLEAN
    /\ S3 = "None"
    /\ pc = "idle"
    /\ event = NoEvent
    /\ context = NoContext
    /\ response = NoResponse
    /\ calls = <<>>
    /\ inits = <<>>
    /\ log = <<>>

\* the runtime delivers an event
Receive ==
    /\ pc = "idle"
    /\ \E inv \in Invocations :
          /\ event' = inv.event
          /\ context' = inv.context
    /\ pc' = "invoked"
    /\ response' = NoResponse
    /\ calls' = <<>>
    /\ inits' = <<>>
    /\ log' = <<>>
    /\ UNCHANGED <<environ, boto3, padsYear, S3>>

\* lambda_handler runs on the delivered event and returns
Handle ==
    /\ pc = "invoked"
    /\ \E now \in Clock :
          \E out \in lambda_handler(event, context, now) :
              /\ response' = out.response
              /\ S3' = out.S3
              /\ calls' = out.calls
              /\ inits' = out.inits
              /\ log' = out.log
    /\ pc' = "idle"
    /\ UNCHANGED <<environ, boto3, padsYear, event, context>>

Next ==
    \/ Receive
    \/ Handle

Spec == Init /\ [][Next]_vars

----------------------------------------------------------------------------
(***************************************************************************)
(* Observations the properties below are stated with.                      *)
(***************************************************************************)

\* lambda_handler has returned from the invocation of event
Returned == pc = "idle" /\ response.statusCode # 0

\* the response body, parsed
Reply == JsonLoads(response.body).v

\* the response is {ok:false, error:msg} with the given status
ErrorReply(status, msg) ==
    /\ response.statusCode = status
    /\ Reply = PyDict(<<Str("ok"), Str("error")>>, <<PyBool(FALSE), PyStr(Str(msg))>>)

\* the decoded body text and the value it parses to
DecodedText == _decode_body(event)
Payload == JsonLoads(DecodedText.v.s)
BodyParses == DecodedText.exc = "none" /\ Payload.exc = "none"

\* a field of the payload; missing when the payload is no object
Field(name) ==
    IF Payload.v.t = "dict" THEN DictGet(Payload.v, Str(name)) ELSE PyNone

\* appName is text with a character that is not whitespace
AppNameValid ==
    LET app_name == Field("appName")
    IN  app_name.t = "str" /\ \E i \in 1..Len(app_name.s) : ~IsSpace(app_name.s[i])

\* v is a JSON number (a boolean is not) and is finite
FiniteNumber(v) ==
    v.t \in {"int", "float"} /\ (v.t = "float" => v.k = "fin")

\* decoding and validation succeed as the specification defines them
Validated == BodyParses /\ AppNameValid /\ FiniteNumber(Field("timestamp"))

\* every step lambda_handler takes before the upload succeeds on event
ReachesUpload ==
    /\ BodyParses
    /\ AppNameValid
    /\ LET norm == _normalize_timestamp_to_ms(Field("timestamp"))
       IN  /\ norm.exc = "none"
           /\ _derive_date_parts(norm.v, padsYear).exc = "none"
    /\ Utf8Encode(DecodedText.v.s).exc = "none"

\* the DRY_RUN setting is "1" or a letter-case variant of "true" or "yes"
TrueLike ==
    /\ environ["DRY_RUN"] # <<>>
    /\ LET low == [i \in 1..Len(Str(environ["DRY_RUN"][1])) |->
                     IF Str(environ["DRY_RUN"][1])[i] \in 65..90
                     THEN Str(environ["DRY_RUN"][1])[i] + 32
                     ELSE Str(environ["DRY_RUN"][1])[i]]
       IN  low \in {Str("1"), Str("true"), Str("yes")}

(***************************************************************************)
(* C1: put_object attempts per invocation.                                 *)
(***************************************************************************)

\* C1 as stated: an invocation makes exactly one put_object attempt when the
\* mode is live and decoding and validation succeeded, exactly zero when the
\* mode is dry-run or decoding or validation failed, and never more than one.
C1_AsStated ==
    Returned =>
        /\ Len(calls) <= 1
        /\ (~DRY_RUN /\ Validated => Len(calls) = 1)
        /\ (DRY_RUN \/ ~Validated => Len(calls) = 0)

\* C1 amended: an invocation never makes more than one put_object attempt,
\* also when the put fails.  It makes exactly one when the mode is live, every
\* step before the upload succeeded and a storage client is at hand (kept from
\* an earlier invocation or constructed in this one).  It makes none in
\* dry-run mode, on every 400 response, when a step before the upload failed,
\* and when the storage client could not be constructed.
C1_PutAttempts ==
    Returned =>
        /\ Len(calls) <= 1
        /\ (~DRY_RUN /\ ReachesUpload /\ S3 = "client" => Len(calls) = 1)
        /\ (~DRY_RUN /\ response.statusCode = 200 => Len(calls) = 1)
        /\ (DRY_RUN \/ ~ReachesUpload \/ S3 = "None" \/ response.statusCode = 400
                => Len(calls) = 0)

\* a live invocation of a valid event in which boto3.client("s3") raised: no
\* put_object attempt was made
C1_Witness ==
    /\ Returned
    /\ ~DRY_RUN
    /\ Validated
    /\ inits = <<"raised">>
    /\ calls = <<>>
    /\ response.statusCode = 500

(***************************************************************************)
(* C2, C3: validation of appName and timestamp.                            *)
(***************************************************************************)

\* C2 as stated: when the decoded body parses as JSON, whatever the type of
\* the top-level value, and appName is missing, not text or only whitespace,
\* the response is 400 {ok:false, error:"Missing or invalid appName"} and no
\* storage write is attempted.
C2_AsStated ==
    Returned /\ BodyParses /\ ~AppNameValid =>
        /\ ErrorReply(400, "Missing or invalid appName")
        /\ calls = <<>>

\* C3 as stated: with a valid appName, a timestamp that is missing, is no
\* number (string, null, boolean, array, object) or is not finite gives 400
\* {ok:false, error:"Missing or invalid timestamp"} and no storage write.
C3_AsStated ==
    Returned /\ BodyParses /\ AppNameValid /\ ~FiniteNumber(Field("timestamp")) =>
        /\ ErrorReply(400, "Missing or invalid timestamp")
        /\ calls = <<>>

(***************************************************************************)
(* C4: what a live success stored.                                         *)
(***************************************************************************)

\* C4: whenever lambda_handler returns 200 in live mode, one put_object call
\* to the configured bucket completed without error in that invocation, its
\* Key is the key of the response, its Body is the UTF-8 encoding of the
\* decoded request body text itself, its ContentType is application/json and
\* the size of the response is the byte length of that Body.
C4_StoredObject ==
    Returned /\ ~DRY_RUN /\ response.statusCode = 200 =>
        /\ Len(calls) = 1
        /\ calls[1].op = "put_object"
        /\ calls[1].outcome = "ok"
        /\ calls[1].Bucket = Str(Getenv("RAW_BUCKET_NAME", "zoolanding-data-raw"))
        /\ DictGet(Reply, Str("key")) = PyStr(calls[1].Key)
        /\ DecodedText.exc = "none"
        /\ Utf8Decode(calls[1].Body) = Ok(PyStr(DecodedText.v.s))
        /\ calls[1].ContentType = "application/json"
        /\ DictGet(Reply, Str("size")) = PyInt(FALSE, NatDigits(Len(calls[1].Body)))

\* a live 200 for a body with characters outside ASCII, whose byte length is
\* not its character count and whose text is not what json.dumps would write
C4_Witness ==
    /\ Returned
    /\ ~DRY_RUN
    /\ response.statusCode = 200
    /\ Len(calls) = 1
    /\ DecodedText.exc = "none"
    /\ \E i \in 1..Len(DecodedText.v.s) : DecodedText.v.s[i] > 127
    /\ Len(calls[1].Body) > Len(DecodedText.v.s)

(***************************************************************************)
(* C5: dry-run.                                                            *)
(***************************************************************************)

\* C5 as stated: with dry-run enabled, every input that passes decoding and
\* validation makes no put_object call, constructs no storage client and gets
\* 200 with ok:true, bucket, key, size and dryRun:true; in live mode the
\* success body has no dryRun field.
C5_AsStated ==
    Returned =>
        /\ DRY_RUN /\ Validated =>
              /\ calls = <<>>
              /\ inits = <<>>
              /\ S3 = "None"
              /\ response.statusCode = 200
              /\ Reply.t = "dict"
              /\ DictGet(Reply, Str("ok")) = PyBool(TRUE)
              /\ DictGet(Reply, Str("bucket")).t = "str"
              /\ DictGet(Reply, Str("key")).t = "str"
              /\ DictGet(Reply, Str("size")).t = "int"
              /\ DictGet(Reply, Str("dryRun")) = PyBool(TRUE)
        /\ ~DRY_RUN /\ response.statusCode = 200 =>
              \A i \in 1..Len(Reply.keys) : Reply.keys[i] # Str("dryRun")

(***************************************************************************)
(* C6: unclassified exceptions.                                            *)
(***************************************************************************)

\* an exception was raised in the invocation that is none of the classified
\* client errors (missing or undecodable body, invalid JSON, invalid appName,
\* invalid timestamp): in the timestamp arithmetic, the date derivation, the
\* encoding of the body, the client construction or the put
Unclassified ==
    /\ BodyParses
    /\ AppNameValid
    /\ LET norm == _normalize_timestamp_to_ms(Field("timestamp"))
       IN  /\ norm.exc # "ValueError"
           /\ \/ norm.exc # "none"
              \/ _derive_date_parts(norm.v, padsYear).exc # "none"
              \/ Utf8Encode(DecodedText.v.s).exc # "none"
              \/ ~DRY_RUN /\ (S3 = "None" \/ \E i \in 1..Len(calls) : calls[i].outcome = "raised")

\* C6 as stated: every exception that is not a classified client error makes
\* lambda_handler return 500 with the body {ok:false, error:"Internal error"}
\* exactly, so that the text of the underlying error is in no response body.
C6_AsStated ==
    Returned /\ Unclassified =>
        /\ response.statusCode = 500
        /\ response.body = Str("{\"ok\":false,\"error\":\"Internal error\"}")

(***************************************************************************)
(* C7: _normalize_timestamp_to_ms.                                         *)
(***************************************************************************)

\* ts >= 10^12, for a finite number ts
AtLeastTenPow12(ts) ==
    ~ts.neg /\ Len(ts.mag) >= 13

\* ts truncated toward zero when ts >= 10^12, ts * 1000 truncated toward zero
\* otherwise: the digits before the decimal point, after moving it three
\* places when ts is in seconds
ClaimedMs(ts) ==
    LET frac   == IF ts.t = "float" THEN ts.frac ELSE <<>>
        shift  == SubSeq(frac \o <<0, 0, 0>>, 1, 3)
        digits == IF AtLeastTenPow12(ts) THEN ts.mag ELSE ts.mag \o shift
    IN  PyInt(ts.neg, digits)

\* C7 as stated: for every finite numeric timestamp ts,
\* _normalize_timestamp_to_ms returns ts truncated to an integer when
\* ts >= 10^12 and ts * 1000 truncated toward zero when ts < 10^12; 10^12
\* itself counts as milliseconds.
C7_AsStated ==
    Returned /\ BodyParses /\ FiniteNumber(Field("timestamp")) =>
        _normalize_timestamp_to_ms(Field("timestamp")) = Ok(ClaimedMs(Field("timestamp")))

(***************************************************************************)
(* C8: the key.                                                            *)
(***************************************************************************)

\* YYYY, MM, DD of the UTC day of ts_ms, zero-padded to 4, 2 and 2 digits
PaddedDate(ts_ms) ==
    LET ymd == CivilFromDays(SFloorDiv(SFloorDiv1000(ts_ms), 86400).q)
    IN  <<DigitsText(Pad(NatDigits(ymd.year), 4)), DigitsText(Pad(NatDigits(ymd.month), 2)),
          DigitsText(Pad(NatDigits(ymd.day), 2))>>

\* the context request id is text of length >= 8
LongRequestId ==
    /\ context.attr = "present"
    /\ context.aws_request_id.t = "str"
    /\ Len(context.aws_request_id.s) >= 8

\* C8 as stated: for every valid invocation the key of the success response
\* is {appName}/{YYYY}/{MM}/{DD}/{timestampMs}-{shortRequestId}.json with
\* appName verbatim, YYYY/MM/DD the zero-padded UTC date of the normalized
\* timestamp and shortRequestId the last 8 characters of the request id when
\* that id is text of length >= 8; appName "demo", timestamp 1700000000 and a
\* request id ending in ABCD1234 give
\* demo/2023/11/14/1700000000000-ABCD1234.json.
C8_AsStated ==
    Returned /\ Validated /\ response.statusCode = 200 =>
        LET ms     == ClaimedMs(Field("timestamp"))
            date   == PaddedDate(ms)
            prefix == Field("appName").s \o Str("/") \o date[1] \o Str("/") \o date[2]
                          \o Str("/") \o date[3] \o Str("/") \o IntText(ms) \o Str("-")
            key    == DictGet(Reply, Str("key"))
        IN  /\ key.t = "str"
            /\ Len(key.s) > Len(prefix) + 5
            /\ SubSeq(key.s, 1, Len(prefix)) = prefix
            /\ LastN(key.s, 5) = Str(".json")
            /\ LongRequestId =>
                   key.s = prefix \o LastN(context.aws_request_id.s, 8) \o Str(".json")
            /\ (/\ DecodedText.v.s = Str("{\"appName\":\"demo\",\"timestamp\":1700000000}")
                /\ LongRequestId
                /\ LastN(context.aws_request_id.s, 8) = Str("ABCD1234"))
                   => key.s = Str("demo/2023/11/14/1700000000000-ABCD1234.json")

(***************************************************************************)
(* C9: the storage client handle.                                          *)
(***************************************************************************)

\* C9: the client handle is constructed at most once in a process; once set
\* it is never replaced, no further construction is attempted and a later
\* live invocation that reaches the upload uses it; an invocation in which
\* construction fails returns 500 and leaves the handle unset, and a later
\* live invocation that reaches the upload attempts the construction again.
C9_ClientHandle ==
    /\ [](Returned =>
            /\ Len(inits) <= 1
            /\ inits = <<"ok">> => S3 = "client"
            /\ inits = <<"raised">> =>
                  S3 = "None" /\ calls = <<>> /\ ErrorReply(500, "Internal error")
            /\ (~DRY_RUN /\ boto3 = "None" /\ ReachesUpload) =>
                  S3 = "None" /\ calls = <<>> /\ ErrorReply(500, "Internal error"))
    /\ [][/\ S3 = "client" => S3' = "client" /\ inits' = <<>>
          /\ (pc = "invoked" /\ pc' = "idle" /\ S3 = "client" /\ ~DRY_RUN /\ ReachesUpload)
                => Len(calls') = 1
          /\ (pc = "invoked" /\ pc' = "idle" /\ S3 = "None" /\ ~DRY_RUN /\ boto3 = "module"
                  /\ ReachesUpload)
                => Len(inits') = 1]_vars

\* a live invocation that uploaded with the handle an earlier invocation
\* constructed
C9_Witness ==
    /\ Returned
    /\ S3 = "client"
    /\ inits = <<>>
    /\ Len(calls) = 1
    /\ response.statusCode = 200

(***************************************************************************)
(* C10: the DRY_RUN setting.                                               *)
(***************************************************************************)

\* C10 as stated: dry-run mode is enabled exactly when DRY_RUN is "1" or a
\* letter-case variant of "true" or "yes"; for every such value no storage
\* I/O is performed, for every other value (unset too) the mode is live.
C10_AsStated ==
    Returned =>
        /\ DRY_RUN <=> TrueLike
        /\ TrueLike =>
              /\ calls = <<>>
              /\ inits = <<>>
              /\ S3 = "None"
              /\ response.statusCode = 200 => DictGet(Reply, Str("dryRun")) = PyBool(TRUE)
        /\ ~TrueLike /\ response.statusCode = 200 =>
              /\ Len(calls) = 1
              /\ \A i \in 1..Len(Reply.keys) : Reply.keys[i] # Str("dryRun")
====
